---- MODULE Spec2Model ----
(***************************************************************************)
(* Page-config assembly and path routing of the notebook application       *)
(* (src/app_improvements.py): NotebookBaseHandler.get_page_config,         *)
(* TreeHandler.get, the four page handlers and CustomCssHandler.get.       *)
(*                                                                         *)
(* Strings are sequences of tokens.  A token is one character ("/", ".",   *)
(* ":", " ", "a", ...) or a whole word ("static", "notebooks", ...) that   *)
(* holds none of the characters the code inspects, so that strip, split,   *)
(* startswith and concatenation act on a sequence as they act on the       *)
(* Python string.  The host is POSIX: os.sep is "/".                       *)
(***************************************************************************)
EXTENDS Integers, Sequences, FiniteSets, TLC

VARIABLES
  settings,            \* the web application's settings dict (shared)
  serverapp,           \* self.serverapp: preferred_dir
  app,                 \* self.extensionapp: the trait values
  labext_page_config,  \* the items of what get_page_config(labextensions_path)
                       \* reads from disk
  config_dir,          \* jupyter_config_dir()
  fs,                  \* the file system entries at the custom CSS candidates
  request,             \* the last finished request: handler, path, the
                       \* contents manager's answers, and the settings it found
  response,            \* what the last finished request sent
  log,                 \* what the last finished request logged
  pending,             \* the suspended TreeHandler.get and the await it is at
  settings0            \* the settings at start-up

vars == <<settings, serverapp, app, labext_page_config, config_dir, fs,
          request, response, log, pending, settings0>>

(***************************************************************************)
(* Bounds of the model.                                                    *)
(***************************************************************************)
MaxPathLen == 3
MaxUrlLen == 6
MaxReqLen == 3
MaxDirLen == 3
NSub == 2

(***************************************************************************)
(* Python str helpers.                                                     *)
(***************************************************************************)
RECURSIVE lstrip(_)
lstrip(s) == IF s # <<>> /\ Head(s) = "/" THEN lstrip(Tail(s)) ELSE s

RECURSIVE rstrip(_)
rstrip(s) ==
  IF s # <<>> /\ s[Len(s)] = "/" THEN rstrip(SubSeq(s, 1, Len(s) - 1)) ELSE s

\* str.strip("/")
strip(s) == rstrip(lstrip(s))

startswith(s, p) == Len(p) <= Len(s) /\ SubSeq(s, 1, Len(p)) = p

endswith(s, p) == Len(p) <= Len(s) /\ SubSeq(s, Len(s) - Len(p) + 1, Len(s)) = p

\* str.split(sep) for a one-token separator: always at least one part.
RECURSIVE split_acc(_, _, _, _)
split_acc(s, sep, cur, acc) ==
  IF s = <<>> THEN Append(acc, cur)
  ELSE IF Head(s) = sep THEN split_acc(Tail(s), sep, <<>>, Append(acc, cur))
  ELSE split_acc(Tail(s), sep, Append(cur, Head(s)), acc)

split(s, sep) == split_acc(s, sep, <<>>, <<>>)

\* sep.join(parts)
RECURSIVE join(_, _)
join(parts, sep) ==
  IF parts = <<>> THEN <<>>
  ELSE IF Len(parts) = 1 THEN parts[1]
  ELSE parts[1] \o <<sep>> \o join(Tail(parts), sep)

\* [x for x in parts if x]
RECURSIVE nonempty(_)
nonempty(parts) ==
  IF parts = <<>> THEN <<>>
  ELSE IF Head(parts) = <<>> THEN nonempty(Tail(parts))
  ELSE <<Head(parts)>> \o nonempty(Tail(parts))

\* str.find(tok): the first index holding tok, 0 when there is none.
RECURSIVE find_from(_, _, _)
find_from(s, tok, i) ==
  IF i > Len(s) THEN 0 ELSE IF s[i] = tok THEN i ELSE find_from(s, tok, i + 1)

find(s, tok) == find_from(s, tok, 1)

\* All strings over an alphabet of length at most n.
RECURSIVE Strings(_, _)
Strings(alphabet, n) ==
  IF n = 0 THEN {<<>>}
  ELSE LET shorter == Strings(alphabet, n - 1)
       IN  shorter \cup {Append(s, c) : s \in shorter, c \in alphabet}

(***************************************************************************)
(* jupyter_server.utils: url_path_join (imported as ujoin), url_escape,    *)
(* url_is_absolute; jupyterlab_server.handlers.is_url; urllib's urlparse.  *)
(***************************************************************************)
RECURSIVE strip_all(_)
strip_all(pieces) ==
  IF pieces = <<>> THEN <<>>
  ELSE <<strip(Head(pieces))>> \o strip_all(Tail(pieces))

\* url_path_join(*pieces): strip every piece, join the non-empty ones with
\* "/", keep a leading slash of the first and a trailing slash of the last.
ujoin_wrap(initial, final, body) ==
  (IF initial THEN <<"/">> ELSE <<>>) \o body \o (IF final THEN <<"/">> ELSE <<>>)

ujoin_fix(result) == IF result = <<"/", "/">> THEN <<"/">> ELSE result

ujoin(pieces) ==
  ujoin_fix(ujoin_wrap(startswith(pieces[1], <<"/">>),
                       endswith(pieces[Len(pieces)], <<"/">>),
                       join(nonempty(strip_all(pieces)), "/")))

\* urllib.parse.quote of one token (safe="/"): a space is percent-encoded,
\* letters, digits and "." are kept.
quote_token(c) == IF c = " " THEN <<"%", "2", "0">> ELSE <<c>>

RECURSIVE quote(_)
quote(s) == IF s = <<>> THEN <<>> ELSE quote_token(Head(s)) \o quote(Tail(s))

RECURSIVE quote_all(_)
quote_all(parts) ==
  IF parts = <<>> THEN <<>> ELSE <<quote(Head(parts))>> \o quote_all(Tail(parts))

\* url_escape(path): quote every "/"-separated segment, join them again.
url_escape(path) == join(quote_all(split(path, "/")), "/")

SchemeChars == {"a", "b", "h", "."}
Alpha == {"a", "b", "h"}

\* urlsplit: [scheme, netloc, path] (no query or fragment in the alphabet).
urlparse(url) ==
  LET i == find(url, ":")
      has_scheme ==
        /\ i > 1
        /\ url[1] \in Alpha
        /\ \A j \in 1..(i - 1) : url[j] \in SchemeChars
      scheme == IF has_scheme THEN SubSeq(url, 1, i - 1) ELSE <<>>
      rest   == IF has_scheme THEN SubSeq(url, i + 1, Len(url)) ELSE url
      has_netloc == startswith(rest, <<"/", "/">>)
      after  == IF has_netloc THEN SubSeq(rest, 3, Len(rest)) ELSE rest
      k      == find(after, "/")
      netloc == IF ~has_netloc THEN <<>>
                ELSE IF k = 0 THEN after ELSE SubSeq(after, 1, k - 1)
      path   == IF ~has_netloc THEN rest
                ELSE IF k = 0 THEN <<>> ELSE SubSeq(after, k, Len(after))
  IN  [scheme |-> scheme, netloc |-> netloc, path |-> path]

\* url_is_absolute(url): urlparse(url).path.startswith("/")
url_is_absolute(url) == startswith(urlparse(url).path, <<"/">>)

\* is_url(url): all([result.scheme, result.netloc])
has_scheme_and_netloc(result) == result.scheme # <<>> /\ result.netloc # <<>>

is_url(url) == has_scheme_and_netloc(urlparse(url))

(***************************************************************************)
(* pathlib and os.path on a POSIX host.                                    *)
(***************************************************************************)
\* The process's working directory, which os.path.abspath joins a relative
\* path onto.
cwd == <<"/", "w">>

RECURSIVE drop_dots(_)
drop_dots(parts) ==
  IF parts = <<>> THEN <<>>
  ELSE IF Head(parts) = <<>> \/ Head(parts) = <<".">> THEN drop_dots(Tail(parts))
  ELSE <<Head(parts)>> \o drop_dots(Tail(parts))

\* str(Path(p).expanduser()): the root is "//" for exactly two leading
\* slashes and "/" for any other number; empty and "." segments are dropped;
\* ".." segments are kept; no string of the model starts with "~".
path_str(p) ==
  LET stripped == lstrip(p)
      nslash   == Len(p) - Len(stripped)
      root     == IF nslash = 0 THEN <<>>
                  ELSE IF nslash = 2 THEN <<"/", "/">> ELSE <<"/">>
      parts    == drop_dots(split(stripped, "/"))
      s        == root \o join(parts, "/")
  IN  IF s = <<>> THEN <<".">> ELSE s

\* The loop of posixpath.normpath over the components.
RECURSIVE norm_comps(_, _, _)
norm_comps(comps, initial_slashes, new_comps) ==
  IF comps = <<>> THEN new_comps
  ELSE LET comp == Head(comps)
           n    == Len(new_comps)
       IN  IF comp = <<>> \/ comp = <<".">>
             THEN norm_comps(Tail(comps), initial_slashes, new_comps)
           ELSE IF \/ comp # <<".", ".">>
                   \/ (initial_slashes = 0 /\ n = 0)
                   \/ (n > 0 /\ new_comps[n] = <<".", ".">>)
             THEN norm_comps(Tail(comps), initial_slashes, Append(new_comps, comp))
           ELSE IF n > 0
             THEN norm_comps(Tail(comps), initial_slashes, SubSeq(new_comps, 1, n - 1))
           ELSE norm_comps(Tail(comps), initial_slashes, new_comps)

\* os.path.normpath
normpath(path) ==
  IF path = <<>> THEN <<".">>
  ELSE LET initial_slashes ==
             IF ~startswith(path, <<"/">>) THEN 0
             ELSE IF startswith(path, <<"/", "/">>) /\ ~startswith(path, <<"/", "/", "/">>)
               THEN 2
             ELSE 1
           body == join(norm_comps(split(path, "/"), initial_slashes, <<>>), "/")
           res  == (IF initial_slashes = 2 THEN <<"/", "/">>
                    ELSE IF initial_slashes = 1 THEN <<"/">> ELSE <<>>) \o body
       IN  IF res = <<>> THEN <<".">> ELSE res

\* os.path.join(a, b) for two parts
path_join(a, b) ==
  IF startswith(b, <<"/">>) THEN b
  ELSE IF a = <<>> \/ endswith(a, <<"/">>) THEN a \o b
  ELSE a \o <<"/">> \o b

\* os.path.abspath
abspath(path) ==
  IF startswith(path, <<"/">>) THEN normpath(path) ELSE normpath(path_join(cwd, path))

RECURSIVE common_len(_, _)
common_len(a, b) ==
  IF a = <<>> \/ b = <<>> \/ Head(a) # Head(b) THEN 0
  ELSE 1 + common_len(Tail(a), Tail(b))

\* os.path.relpath(path, start): [raised, value]; an empty path raises
\* ValueError("no path specified").
relpath(path, start) ==
  IF path = <<>> THEN [raised |-> TRUE, value |-> <<>>]
  ELSE LET start_list == nonempty(split(abspath(start), "/"))
           path_list  == nonempty(split(abspath(path), "/"))
           i          == common_len(start_list, path_list)
           ups        == [j \in 1..(Len(start_list) - i) |-> <<".", ".">>]
           rel_list   == ups \o SubSeq(path_list, i + 1, Len(path_list))
       IN  [raised |-> FALSE,
            value  |-> IF rel_list = <<>> THEN <<".">> ELSE join(rel_list, "/")]

(***************************************************************************)
(* Python values of a page config.  A value is a scalar (a string, or a    *)
(* bool written <<"True">>/<<"False">>), None, or a nested dict.  A dict   *)
(* the code writes to or compares is a function from its keys: no code of  *)
(* the handlers depends on the order of its keys.  The one dict the code   *)
(* iterates over, the extension page config handed to recursive_update as  *)
(* `new`, is the sequence new.items() of its <<key, value>> pairs in       *)
(* insertion order, nested dicts included.                                 *)
(***************************************************************************)
EmptyDict == <<>>

Scalar(s) == [kind |-> "scalar", val |-> s, sub |-> EmptyDict]

NoneValue == [kind |-> "none", val |-> <<>>, sub |-> EmptyDict]

Map(d) == [kind |-> "map", val |-> <<>>, sub |-> d]

\* target[k] = v
Put(d, k, v) == [x \in (DOMAIN d) \cup {k} |-> IF x = k THEN v ELSE d[x]]

\* del target[k] / target.pop(k, None)
Del(d, k) == [x \in (DOMAIN d) \ {k} |-> d[x]]

\* {**d, **e} and d.update(e)
Update(d, e) ==
  [x \in (DOMAIN d) \cup (DOMAIN e) |-> IF x \in DOMAIN e THEN e[x] ELSE d[x]]

\* Python truth value: `not v`
Falsy(v) ==
  \/ v.kind = "none"
  \/ v.kind = "scalar" /\ v.val \in {<<>>, <<"False">>}
  \/ v.kind = "map" /\ DOMAIN v.sub = {}

\* The values of the extension page config: a nested dict holds its items.
ItemScalar(s) == [kind |-> "scalar", val |-> s, items |-> <<>>]

ItemNone == [kind |-> "none", val |-> <<>>, items |-> <<>>]

ItemMap(items) == [kind |-> "map", val |-> <<>>, items |-> items]

\* The keys of new, `k in new` and new[k].
item_keys(items) == {items[i][1] : i \in DOMAIN items}

item_at(items, k) == items[CHOOSE i \in DOMAIN items : items[i][1] = k][2]

(***************************************************************************)
(* jupyterlab_server.config.recursive_update(target, new), called at       *)
(* get_page_config's merge of the extension page config.  items is what is *)
(* left of new.items().  The result is [ok, v]: v is the state the target  *)
(* object is left in, ok is FALSE when the call raised (a key assigned in, *)
(* or deleted from, a value that is no dict).                              *)
(***************************************************************************)
\* Faulty variant: a None value deletes its key with target.pop(k), which raises
\* when the key is missing.
RECURSIVE recursive_update_items_strict_pop(_, _)
recursive_update_items_strict_pop(target, items) ==
  IF items = <<>> THEN [ok |-> TRUE, v |-> target]
  ELSE IF target.kind # "map" THEN [ok |-> FALSE, v |-> target]
  ELSE
    LET k == Head(items)[1]
        v == Head(items)[2]
        d == target.sub
    IN  IF v.kind = "map"
          THEN LET child == IF k \in DOMAIN d THEN d[k] ELSE Map(EmptyDict)
                   r     == recursive_update_items_strict_pop(child, v.items)
               IN  IF ~r.ok THEN [ok |-> FALSE, v |-> Map(Put(d, k, r.v))]
                   ELSE IF Falsy(r.v)
                     THEN recursive_update_items_strict_pop(Map(Del(d, k)), Tail(items))
                   ELSE recursive_update_items_strict_pop(Map(Put(d, k, r.v)),
                                                          Tail(items))
        ELSE IF v.kind = "none"
          THEN IF k \in DOMAIN d
                 THEN recursive_update_items_strict_pop(Map(Del(d, k)), Tail(items))
               ELSE [ok |-> FALSE, v |-> target]
        ELSE recursive_update_items_strict_pop(Map(Put(d, k, Scalar(v.val))),
                                               Tail(items))

RECURSIVE recursive_update_items(_, _)
recursive_update_items(target, items) ==
  IF items = <<>> THEN [ok |-> TRUE, v |-> target]
  ELSE IF target.kind # "map" THEN [ok |-> FALSE, v |-> target]
  ELSE
    LET k == Head(items)[1]
        v == Head(items)[2]
        d == target.sub
    IN  IF v.kind = "map"
          THEN LET child == IF k \in DOMAIN d THEN d[k] ELSE Map(EmptyDict)
                   r     == recursive_update_items(child, v.items)
               IN  IF ~r.ok THEN [ok |-> FALSE, v |-> Map(Put(d, k, r.v))]
                   ELSE IF Falsy(r.v)
                     \* prune empty subdicts
                     THEN recursive_update_items(Map(Del(d, k)), Tail(items))
                   ELSE recursive_update_items(Map(Put(d, k, r.v)), Tail(items))
        ELSE IF v.kind = "none"
          THEN recursive_update_items(Map(Del(d, k)), Tail(items))
        ELSE recursive_update_items(Map(Put(d, k, Scalar(v.val))), Tail(items))

\* for k, v in new.items(): ...
recursive_update(target, new) == recursive_update_items(target, new)

(***************************************************************************)
(* NotebookBaseHandler.get_page_config                                     *)
(***************************************************************************)
\* __version__ and the extension's name (JupyterNotebookApp.name).
version == <<"7">>

extension_name == <<"notebook">>

\* LabConfig().trait_names(): the traits the model carries.
trait_names == <<"app_version", "static_dir", "settings_url">>

\* jupyterlab_server.handlers._camelCase on the names in use.
camelCase(name) ==
  CASE name = "app_version" -> "appVersion"
    [] name = "static_dir" -> "staticDir"
    [] name = "settings_url" -> "settingsUrl"
    [] name = "full_settings_url" -> "fullSettingsUrl"

\* name.endswith("_url")
ends_with_url(name) == name \in {"settings_url"}

full_name(name) == CASE name = "settings_url" -> "full_settings_url"

LogEntry(level, msg, src, dst) ==
  [level |-> level, msg |-> msg, src |-> src, dst |-> dst]

\* The dict literal of lines 60-69 without the **page_config_data it starts
\* from.
static_layer(st) ==
  [appVersion         |-> Scalar(version),
   baseUrl            |-> Scalar(st.base_url),
   terminalsAvailable |-> Scalar(st.terminals_available),
   token              |-> Scalar(st.token),
   fullStaticUrl      |-> Scalar(ujoin(<<st.base_url, <<"static">>, extension_name>>)),
   frontendUrl        |-> Scalar(ujoin(<<st.base_url, <<"/">>>>)),
   exposeAppInBrowser |-> Scalar(app.expose_app_in_browser)]

\* server_root of lines 71-72.
server_root(st) == normpath(path_str(st.server_root_dir))

\* Lines 73-78: [value, failed]; failed when relpath raised and the except
\* branch ran.
\* Faulty variant: the except branch swallows the error without logging it.
preferred_path_from_silent(preferred_dir, root) ==
  IF preferred_dir # root
    THEN IF relpath(preferred_dir, root).raised
           THEN [value |-> <<"/">>, failed |-> FALSE]
         ELSE [value |-> <<"/">> \o relpath(preferred_dir, root).value,
               failed |-> FALSE]
  ELSE [value |-> <<"/">>, failed |-> FALSE]

preferred_path_from(preferred_dir, root) ==
  IF preferred_dir # root
    THEN IF relpath(preferred_dir, root).raised
           THEN [value |-> <<"/">>, failed |-> TRUE]
         ELSE [value |-> <<"/">> \o relpath(preferred_dir, root).value,
               failed |-> FALSE]
  ELSE [value |-> <<"/">>, failed |-> FALSE]

preferred_path(st) == preferred_path_from(serverapp.preferred_dir, server_root(st))

\* Faulty variant: a URL that already starts with the base URL is joined onto it again.
full_mathjax_url_always_joined(st) ==
  IF ~url_is_absolute(st.mathjax_url)
    THEN ujoin(<<st.base_url, st.mathjax_url>>)
  ELSE st.mathjax_url

\* Lines 81-86.
full_mathjax_url(st) ==
  IF ~url_is_absolute(st.mathjax_url) /\ ~startswith(st.mathjax_url, st.base_url)
    THEN ujoin(<<st.base_url, st.mathjax_url>>)
  ELSE st.mathjax_url

\* Lines 88-92.
mathjax_layer(st) ==
  [mathjaxConfig    |-> Scalar(st.mathjax_config),
   fullMathjaxUrl   |-> Scalar(full_mathjax_url(st)),
   jupyterConfigDir |-> Scalar(config_dir)]

\* Lines 94-95.
RECURSIVE trait_layer(_, _)
trait_layer(pc, names) ==
  IF names = <<>> THEN pc
  ELSE trait_layer(Put(pc, camelCase(Head(names)), Scalar(app[Head(names)])),
                   Tail(names))

\* Lines 97-103.
RECURSIVE full_url_layer(_, _, _)
full_url_layer(pc, names, base_url) ==
  IF names = <<>> THEN pc
  ELSE LET name == Head(names)
           url  == app[name]
           full == IF ~is_url(url) THEN ujoin(<<base_url, url>>) ELSE url
       IN  IF ends_with_url(name)
             THEN full_url_layer(Put(pc, camelCase(full_name(name)), Scalar(full)),
                                 Tail(names), base_url)
           ELSE full_url_layer(pc, Tail(names), base_url)

\* Every key the handler itself assigns between the copy of page_config_data
\* and the merge of the extension page config, in the order of the code.
handler_layers(st, pref) ==
  full_url_layer(
    trait_layer(
      Update(Put(static_layer(st), "preferredPath", Scalar(pref.value)),
             mathjax_layer(st)),
      trait_names),
    trait_names, st.base_url)

\* page_config as it stands before line 106.
before_merge(st, layers) == Update(st.page_config_data.d, layers)

\* settings["page_config_hook"](self, page_config): the hooks of the model.
apply_hook(hook, pc) ==
  CASE hook = "none" -> pc
    [] hook = "stamp" -> Put(pc, "hooked", Scalar(<<"True">>))
    [] hook = "base_only" -> [x \in (DOMAIN pc) \cap {"baseUrl"} |-> pc[x]]

\* The items of the extension page config that come before key k.
RECURSIVE items_before(_, _)
items_before(items, k) ==
  IF items = <<>> \/ Head(items)[1] = k THEN <<>>
  ELSE <<Head(items)>> \o items_before(Tail(items), k)

\* Whether recursive_update gets as far as key k of the extension page
\* config: no item before it raises.
merge_reaches(pc, k) ==
  recursive_update_items(Map(pc), items_before(labext_page_config, k)).ok

\* {**page_config_data} copies the top level only, so a nested dict of the
\* settings that no handler layer has replaced is the very object
\* recursive_update merges the extension's nested dict into.
shared_with_settings(st, layers, pc, k) ==
  /\ st.page_config_data.d[k].kind = "map"
  /\ k \notin DOMAIN layers
  /\ k \in item_keys(labext_page_config)
  /\ item_at(labext_page_config, k).kind = "map"
  /\ merge_reaches(pc, k)

\* settings["page_config_data"] after the call (line 59 inserts the key when
\* it is missing): a shared nested dict is left as the merge left it, also
\* when the merge raised part of the way.
page_config_data_after(st, layers, pc) ==
  [present |-> TRUE,
   d |-> [k \in DOMAIN st.page_config_data.d |->
            IF shared_with_settings(st, layers, pc, k)
              THEN recursive_update(st.page_config_data.d[k],
                                    item_at(labext_page_config, k).items).v
            ELSE st.page_config_data.d[k]]]

\* Lines 105-118 on the page config pc built so far: merged is what
\* recursive_update made of it.
page_config_result(st, pref, layers, pc, merged) ==
  [raised           |-> ~merged.ok,
   page_config      |-> IF merged.ok
                          THEN apply_hook(st.page_config_hook, merged.v.sub)
                        ELSE EmptyDict,
   log              |-> IF pref.failed
                          THEN <<LogEntry("error", "Error determining preferred path",
                                          <<>>, <<>>)>>
                        ELSE <<>>,
   page_config_data |-> page_config_data_after(st, layers, pc)]

merge_extensions(st, pref, layers, pc) ==
  page_config_result(st, pref, layers, pc,
                     recursive_update(Map(pc), labext_page_config))

page_config_from(st, pref, layers) ==
  merge_extensions(st, pref, layers, before_merge(st, layers))

page_config_with(st, pref) == page_config_from(st, pref, handler_layers(st, pref))

\* The whole method: [raised, page_config, log, page_config_data].
get_page_config(st) == page_config_with(st, preferred_path(st))

(***************************************************************************)
(* The handlers.  The page handlers and CustomCssHandler.get are plain      *)
(* methods: one step each.  TreeHandler.get is a coroutine: it is          *)
(* suspended at each await of the contents manager (pending.at), and other *)
(* requests run while it is; what follows its last await runs in one step. *)
(* log holds the entries the last finished request wrote, response what it *)
(* sent.                                                                   *)
(***************************************************************************)
Response(handler, status, template, pc, location, message, body) ==
  [handler |-> handler, status |-> status, template |-> template,
   page_config |-> pc, location |-> location, message |-> message,
   body |-> body]

NoResponse == Response("none", 0, "", EmptyDict, <<>>, "", <<>>)

\* An exception no handler catches: tornado answers 500.
Uncaught(handler) == Response(handler, 500, "", EmptyDict, <<>>, "", <<>>)

Unchanged_env ==
  UNCHANGED <<serverapp, app, labext_page_config, config_dir, fs, settings0>>

\* No TreeHandler.get is suspended.
NoPending ==
  [at |-> "idle", path |-> <<>>,
   cm |-> [dir_exists |-> FALSE, is_hidden |-> FALSE, allow_hidden |-> FALSE,
           file_exists |-> FALSE, type |-> "file"]]

\* self.write(self.render_template(template, page_config=self.get_page_config()))
Request(handler, path, cm) ==
  [handler |-> handler, path |-> path, cm |-> cm, settings |-> settings]

NoAnswer ==
  [dir_exists |-> FALSE, is_hidden |-> FALSE, allow_hidden |-> FALSE,
   file_exists |-> FALSE, type |-> "file"]

RenderWith(handler, template, r) ==
  /\ request' = Request(handler, <<>>, NoAnswer)
  /\ UNCHANGED pending
  /\ settings' = [settings EXCEPT !.page_config_data = r.page_config_data]
  /\ log' = r.log
  /\ response' = IF r.raised THEN Uncaught(handler)
                 ELSE Response(handler, 200, template, r.page_config, <<>>, "", <<>>)
  /\ Unchanged_env

RenderPage(handler, template) ==
  RenderWith(handler, template, get_page_config(settings))

\* Faulty variant: only the leading slashes are stripped.
normalize_path_lstrip(path_arg) == lstrip(path_arg)

\* Line 127.
normalize_path(path_arg) == strip(path_arg)

\* Faulty variant: the contents manager's allow_hidden is read the wrong way round.
refuses_hidden_inverted(is_hidden, allow_hidden) == is_hidden /\ allow_hidden

\* Line 131.
refuses_hidden(is_hidden, allow_hidden) == is_hidden /\ ~allow_hidden

\* TreeHandler.get(path) with the contents manager's answers for the path;
\* r is what get_page_config returns if the handler calls it, url the
\* redirect target if it redirects.
TreeHandler_get_with(path_arg, path, dir_exists, is_hidden, allow_hidden, file_exists, r, url) ==
  /\ Unchanged_env
  /\ IF dir_exists
       THEN IF refuses_hidden(is_hidden, allow_hidden)
              THEN /\ log' = <<LogEntry("info",
                                 "Refusing to serve hidden directory, via 404 Error",
                                 <<>>, <<>>)>>
                   /\ response' = Response("tree", 404, "", EmptyDict, <<>>, "", <<>>)
                   /\ UNCHANGED settings
            ELSE /\ settings' =
                      [settings EXCEPT !.page_config_data = r.page_config_data]
                 /\ log' = r.log
                 /\ response' =
                      IF r.raised THEN Uncaught("tree")
                      ELSE Response("tree", 200, "tree.html",
                                    Put(r.page_config, "treePath", Scalar(path)),
                                    <<>>, "", <<>>)
     ELSE IF file_exists
       THEN /\ log' = <<LogEntry("debug", "Redirecting %s to %s",
                                 settings.base_url \o <<"tree", "/">> \o path_arg, url)>>
            /\ response' = Response("tree", 302, "", EmptyDict, url, "", <<>>)
            /\ UNCHANGED settings
     ELSE /\ log' = <<>>
          /\ response' = Response("tree", 404, "", EmptyDict, <<>>, "", <<>>)
          /\ UNCHANGED settings

\* Faulty variant: every file is sent to the file viewer.
redirect_url_files_only(base_url, model_type, path) ==
  ujoin(<<base_url, <<"files">>, url_escape(path)>>)

\* Lines 142-144.
redirect_url(base_url, model_type, path) ==
  ujoin(<<base_url,
          IF model_type = "notebook" THEN <<"notebooks">> ELSE <<"files">>,
          url_escape(path)>>)

TreeHandler_get(path_arg, dir_exists, is_hidden, allow_hidden, file_exists, model_type) ==
  TreeHandler_get_with(path_arg, normalize_path(path_arg), dir_exists, is_hidden,
                       allow_hidden, file_exists, get_page_config(settings),
                       redirect_url(settings.base_url, model_type,
                                    normalize_path(path_arg)))

EntryTypes == {"notebook", "file", "directory"}

\* What the contents manager may answer for a path: dir_exists, is_hidden,
\* allow_hidden, file_exists and the type of the model cm.get returns.
ContentsAnswers ==
  [dir_exists : BOOLEAN, is_hidden : BOOLEAN, allow_hidden : BOOLEAN,
   file_exists : BOOLEAN, type : EntryTypes]

\* Line 130 is reached: the request for path is suspended at its first
\* await.  cm holds what the contents manager answers for the path while
\* the request lasts.  One tree request is in flight at a time.
TreeStart(paths, answers) ==
  /\ pending.at = "idle"
  /\ \E path \in paths, cm \in answers :
       pending' = [at |-> "dir_exists", path |-> path, cm |-> cm]
  /\ UNCHANGED <<settings, request, response, log>>
  /\ Unchanged_env

\* The await after the one the request is suspended at (lines 130-131,
\* 130-140, 140-141).
next_await(p) ==
  CASE p.at = "dir_exists" -> IF p.cm.dir_exists THEN "is_hidden" ELSE "file_exists"
    [] p.at = "file_exists" -> "get"

\* The request is resumed and reaches another await.
TreeAwait ==
  /\ pending.at \in {"dir_exists", "file_exists"}
  /\ pending.at = "file_exists" => pending.cm.file_exists
  /\ pending' = [pending EXCEPT !.at = next_await(pending)]
  /\ UNCHANGED <<settings, request, response, log>>
  /\ Unchanged_env

\* The request is resumed from its last await (is_hidden, cm.get, or a
\* file_exists that answers no) and runs to its end.
TreeFinish ==
  /\ pending.at \in {"is_hidden", "file_exists", "get"}
  /\ pending.at = "file_exists" => ~pending.cm.file_exists
  /\ pending' = NoPending
  /\ request' = Request("tree", pending.path, pending.cm)
  /\ TreeHandler_get(pending.path, pending.cm.dir_exists, pending.cm.is_hidden,
                     pending.cm.allow_hidden, pending.cm.file_exists,
                     pending.cm.type)

ConsoleGet == RenderPage("console", "consoles.html")

TerminalGet == RenderPage("terminal", "terminals.html")

FileGet == RenderPage("file", "edit.html")

NotebookGet == RenderPage("notebook", "notebooks.html")

\* The kind of the file system entry at p: missing, a regular file that
\* reads ("file"), one that may not be opened ("unreadable"), one whose bytes
\* do not decode ("undecodable"), a directory, or an entry os.stat fails on
\* with an error other than the entry not being there ("unstattable": a
\* directory on the way that may not be searched, a name too long).
FileKind(p) == IF p \in DOMAIN fs THEN fs[p] ELSE "missing"

\* Path(p).is_file() raises: pathlib lets the error of os.stat through.
stat_raises(p) == FileKind(p) = "unstattable"

\* Path(p).is_file() when it returns.
is_file(p) == FileKind(p) \in {"file", "unreadable", "undecodable"}

\* Path(p).open() returns; otherwise it raises an OSError.
can_open(p) == FileKind(p) \in {"file", "undecodable"}

\* css_f.read() returns; otherwise it raises UnicodeDecodeError, which is no
\* IOError.
can_decode(p) == FileKind(p) = "file"

custom_css_suffix == <<"custom", "/", "custom.css">>

primary_css(cfg_dir) == cfg_dir \o <<"/">> \o custom_css_suffix

\* re.match("^(.*?)static", static_dir): [matched, root] with root the text
\* before the first "static".
match_at(static_dir, i) ==
  [matched |-> i > 0,
   root    |-> IF i > 0 THEN SubSeq(static_dir, 1, i - 1) ELSE <<>>]

static_path_root(static_dir) == match_at(static_dir, find(static_dir, "static"))

\* Lines 200-205: the file the handler goes on to open.
css_file_of(primary, m) ==
  IF ~is_file(primary) /\ m.matched THEN m.root \o custom_css_suffix ELSE primary

\* page_config["staticDir"] is read (line 203) only when the primary is no
\* file.
custom_css_file(pc) ==
  IF is_file(primary_css(pc["jupyterConfigDir"].val))
    THEN primary_css(pc["jupyterConfigDir"].val)
  ELSE css_file_of(primary_css(pc["jupyterConfigDir"].val),
                   static_path_root(pc["staticDir"].val))

\* Lines 200-205 raise, outside the try block: the KeyError of line 200,
\* the OSError of is_file at line 202, or the KeyError of line 203 when that
\* line is reached.
css_lookup_raises(pc) ==
  IF "jupyterConfigDir" \notin DOMAIN pc THEN TRUE
  ELSE IF stat_raises(primary_css(pc["jupyterConfigDir"].val)) THEN TRUE
  ELSE /\ ~is_file(primary_css(pc["jupyterConfigDir"].val))
       /\ "staticDir" \notin DOMAIN pc

\* Lines 207-212 on the file chosen.
serve_css(r, file) ==
  IF can_open(file)
    THEN /\ log' = r.log
         /\ response' = IF can_decode(file)
                          THEN Response("custom_css", 200, "", EmptyDict, <<>>, "", file)
                        ELSE Uncaught("custom_css")
  ELSE /\ log' = Append(r.log,
                   LogEntry("error", "Error reading custom CSS file", file, <<>>))
       /\ response' = Response("custom_css", 500, "", EmptyDict, <<>>,
                               "Custom CSS file not found.", <<>>)

CustomCssHandler_get_with(r) ==
  /\ request' = Request("custom_css", <<>>, NoAnswer)
  /\ UNCHANGED pending
  /\ settings' = [settings EXCEPT !.page_config_data = r.page_config_data]
  /\ Unchanged_env
  /\ IF r.raised \/ css_lookup_raises(r.page_config)
       THEN /\ log' = r.log
            /\ response' = Uncaught("custom_css")
     ELSE serve_css(r, custom_css_file(r.page_config))

\* CustomCssHandler.get
CustomCssGet == CustomCssHandler_get_with(get_page_config(settings))

(***************************************************************************)
(* Initial states.  Every specification starts the server with one choice  *)
(* of its configuration; settings0 remembers the settings at start-up.     *)
(***************************************************************************)
DictsOver(keys, vals) == UNION {[S -> vals] : S \in SUBSET keys}

\* The orders in which a dict may hold the keys of S.
KeyOrders(S) ==
  {p \in [1..Cardinality(S) -> S] : \A i, j \in DOMAIN p : p[i] = p[j] => i = j}

\* The dicts over keys and vals as their items, in every insertion order.
ItemsOver(keys, vals) ==
  UNION {{[i \in DOMAIN p |-> <<p[i], d[p[i]]>>] : p \in KeyOrders(DOMAIN d)} :
           d \in DictsOver(keys, vals)}

DefaultSettings ==
  [base_url           |-> <<"/">>,
   page_config_data   |-> [present |-> TRUE, d |-> EmptyDict],
   terminals_available |-> <<"False">>,
   token              |-> <<"t">>,
   server_root_dir    |-> <<"/", "a">>,
   mathjax_config     |-> <<"TeX">>,
   mathjax_url        |-> <<"m">>,
   page_config_hook   |-> "none"]

DefaultApp ==
  [expose_app_in_browser |-> <<"False">>,
   app_version           |-> <<"8">>,
   static_dir            |-> <<"/", "u", "/", "static">>,
   settings_url          |-> <<"/", "s">>]

DefaultServerApp == [preferred_dir |-> <<"/", "a">>]

DefaultConfigDir == <<"/", "c">>

BaseUrls == {<<"/">>, <<"/", "b", "/">>}

InitWith(st, sa, ap, frag, cfg, files) ==
  /\ settings = st
  /\ settings0 = st
  /\ serverapp = sa
  /\ app = ap
  /\ labext_page_config = frag
  /\ config_dir = cfg
  /\ fs = files
  /\ request = [handler |-> "none", path |-> <<>>, cm |-> NoAnswer, settings |-> st]
  /\ response = NoResponse
  /\ log = <<>>
  /\ pending = NoPending

\* Page configs: settings["page_config_data"] and the extension page config
\* over a free key "k" and a key the handler assigns itself, "token".
SubKeyNames == <<"a", "b", "c">>

SubKeys == {SubKeyNames[i] : i \in 1..NSub}

PcdValues ==
  {Scalar(<<"1">>)} \cup {Map(d) : d \in DictsOver(SubKeys, {Scalar(<<"1">>)})}

PcdChoices ==
  {d \in DictsOver({"k", "token"}, PcdValues) :
     "token" \in DOMAIN d => d["token"] = Scalar(<<"1">>)}

Hooks == {"none", "stamp", "base_only"}

\* Layering: nested dicts one level deep, in every order of their keys.
LayerValues ==
  {ItemScalar(<<"2">>), ItemNone}
    \cup {ItemMap(m) : m \in ItemsOver(SubKeys, {ItemScalar(<<"2">>), ItemNone})}

LayerTokenValues ==
  {ItemScalar(<<"2">>), ItemNone, ItemMap(<<>>),
   ItemMap(<<<<"a", ItemScalar(<<"2">>)>>>>)}

LayerChoices ==
  {f \in ItemsOver({"k", "token"}, LayerValues \cup LayerTokenValues) :
     \A i \in DOMAIN f : f[i][2] \in (IF f[i][1] = "k" THEN LayerValues
                                      ELSE LayerTokenValues)}

InitLayers ==
  \E pcd \in PcdChoices, frag \in LayerChoices, hook \in Hooks :
    InitWith([DefaultSettings EXCEPT
                !.page_config_data = [present |-> TRUE, d |-> pcd],
                !.page_config_hook = hook],
             DefaultServerApp, DefaultApp, frag, DefaultConfigDir, EmptyDict)

\* Sequences of requests: the values of a nested dict of the extension page
\* config include a dict, which raises when it meets a plain value.
NestedValues ==
  {ItemScalar(<<"2">>), ItemNone, ItemMap(<<<<"c", ItemScalar(<<"2">>)>>>>)}

FragValues ==
  {ItemScalar(<<"2">>), ItemNone}
    \cup {ItemMap(m) : m \in ItemsOver(SubKeys, NestedValues)}

\* A nested dict that meets the handler's own token, a plain value, and
\* raises; a nested dict that merges into page_config_data's.
RaisingItem == <<"token", ItemMap(<<<<"a", ItemScalar(<<"2">>)>>>>)>>

MergingItem == <<"k", ItemMap(<<<<"b", ItemScalar(<<"2">>)>>>>)>>

\* The extension page config: empty, any value under "k", or the raising
\* item alone, before and after the merging one.
FragChoices ==
  {<<>>, <<RaisingItem>>, <<RaisingItem, MergingItem>>, <<MergingItem, RaisingItem>>}
    \cup {<<<<"k", v>>>> : v \in FragValues}

PcdKValues == {d \in PcdChoices : "token" \notin DOMAIN d}

Init ==
  \E pcd \in PcdKValues, present \in BOOLEAN, frag \in FragChoices,
     hook \in {"none", "stamp"} :
    /\ ~present => pcd = EmptyDict
    /\ InitWith([DefaultSettings EXCEPT
                   !.page_config_data = [present |-> present, d |-> pcd],
                   !.page_config_hook = hook],
                DefaultServerApp, DefaultApp, frag, DefaultConfigDir, EmptyDict)

\* The tree requests of this specification: one path, and one answer of
\* the contents manager for a listing and for a redirect (SpecTree has
\* them all).
SomeRequestPaths == {<<"/", "a">>}

SomeContentsAnswers ==
  {cm \in ContentsAnswers :
     /\ cm.file_exists = ~cm.dir_exists
     /\ ~cm.allow_hidden
     /\ ~cm.is_hidden
     /\ cm.type = (IF cm.dir_exists THEN "directory" ELSE "notebook")}

Next ==
  \/ TreeStart(SomeRequestPaths, SomeContentsAnswers)
  \/ TreeAwait
  \/ TreeFinish
  \/ ConsoleGet
  \/ TerminalGet
  \/ FileGet
  \/ NotebookGet
  \/ CustomCssGet

Spec == Init /\ [][Next]_vars

\* Tree routing: the first request after start-up, for every request path
\* and every answer of the contents manager, under both base URLs.  (What
\* TreeHandler.get decides reads nothing an earlier request has written;
\* sequences of requests are the subject of Spec.)
RequestPaths == Strings({"/", "a", " "}, MaxReqLen)

InitTree ==
  \E base \in BaseUrls, hook \in {"none", "base_only"} :
    InitWith([DefaultSettings EXCEPT !.base_url = base, !.page_config_hook = hook],
             DefaultServerApp, DefaultApp, EmptyDict, DefaultConfigDir, EmptyDict)

NextTree ==
  /\ response.handler = "none"
  /\ TreeStart(RequestPaths, ContentsAnswers) \/ TreeAwait \/ TreeFinish

SpecTree == InitTree /\ [][NextTree]_vars

\* Preferred path: every absolute server root, every absolute or empty
\* preferred directory.
AbsPaths == {p \in Strings({"/", ".", "a"}, MaxPathLen) : startswith(p, <<"/">>)}

InitPref ==
  \E root \in AbsPaths, pref \in AbsPaths \cup {<<>>} :
    InitWith([DefaultSettings EXCEPT !.server_root_dir = root],
             [preferred_dir |-> pref], DefaultApp, EmptyDict, DefaultConfigDir,
             EmptyDict)

NextPages == ConsoleGet \/ TerminalGet \/ FileGet \/ NotebookGet

SpecPref == InitPref /\ [][NextPages]_vars

\* Layering: one call of get_page_config after another, on every choice of
\* page_config_data, extension page config and hook.
SpecLayers == InitLayers /\ [][NextPages]_vars

\* MathJax URL: every URL over "/", ":" and "b", under both base URLs.
MathjaxUrls == Strings({"/", ":", "b"}, MaxUrlLen) \ {<<>>}

InitMathjax ==
  \E base \in BaseUrls, url \in MathjaxUrls :
    InitWith([DefaultSettings EXCEPT !.base_url = base, !.mathjax_url = url],
             DefaultServerApp, DefaultApp, EmptyDict, DefaultConfigDir, EmptyDict)

SpecMathjax == InitMathjax /\ [][NextPages]_vars

\* Custom CSS: every static directory over "/", "u" and the word "static",
\* and every kind of file system entry at the two candidate paths.
StaticDirs == Strings({"/", "u", "static"}, MaxDirLen)

ConfigDirs == {<<"/", "c">>, <<"/", "u">>}

FileKinds ==
  {"missing", "file", "unreadable", "undecodable", "directory", "unstattable"}

CssCandidates(cfg, static_dir) ==
  {primary_css(cfg)}
    \cup (IF static_path_root(static_dir).matched
            THEN {static_path_root(static_dir).root \o custom_css_suffix}
          ELSE {})

\* The extension page config leaves staticDir alone or deletes it.
CssFragChoices == {<<>>, <<<<"staticDir", ItemNone>>>>}

InitCss ==
  \E cfg \in ConfigDirs, static_dir \in StaticDirs, frag \in CssFragChoices :
    \E files \in [CssCandidates(cfg, static_dir) -> FileKinds] :
      InitWith(DefaultSettings, DefaultServerApp,
               [DefaultApp EXCEPT !.static_dir = static_dir], frag, cfg, files)

NextCss == CustomCssGet

SpecCss == InitCss /\ [][NextCss]_vars

(***************************************************************************)
(* Tree routing (SpecTree).                                                *)
(***************************************************************************)
TreeRequest == request.handler = "tree" /\ response.handler = "tree"

HiddenLog ==
  <<LogEntry("info", "Refusing to serve hidden directory, via 404 Error", <<>>, <<>>)>>

\* C1: a tree request for an existing directory that is hidden while
\* allow_hidden is false ends with a 404 after one info log entry; nothing is
\* rendered and no redirect is issued, whatever file_exists answers.
C1_HiddenDirectoryRefused ==
  (TreeRequest /\ request.cm.dir_exists /\ request.cm.is_hidden
     /\ ~request.cm.allow_hidden)
    => /\ response.status = 404
       /\ log = HiddenLog
       /\ response.template = ""
       /\ response.page_config = EmptyDict
       /\ response.location = <<>>

C1_Witness ==
  /\ TreeRequest
  /\ request.cm.dir_exists /\ request.cm.is_hidden /\ ~request.cm.allow_hidden
  /\ request.cm.file_exists
  /\ response.status = 404
  /\ log = HiddenLog

RedirectPrefix == IF request.cm.type = "notebook" THEN <<"notebooks">> ELSE <<"files">>

FileRequest == TreeRequest /\ ~request.cm.dir_exists /\ request.cm.file_exists

RedirectLog(target) ==
  <<LogEntry("debug", "Redirecting %s to %s",
             settings.base_url \o <<"tree", "/">> \o request.path, target)>>

\* The redirect target the claim names: base URL + prefix + escaped path.
C2_Target ==
  settings.base_url \o RedirectPrefix \o <<"/">> \o url_escape(strip(request.path))

\* C2 as stated: a tree request for a path that is no directory but an
\* existing file is redirected to base URL + "notebooks/" + escaped path for a
\* notebook and to base URL + "files/" + escaped path for any other type, after
\* the debug entry with the request path and that destination.
C2_ConcatenatedTarget ==
  FileRequest
    => /\ response.status = 302
       /\ response.location = C2_Target
       /\ response.template = ""
       /\ log = RedirectLog(C2_Target)

\* The target with the escaped path joined on: an empty path adds nothing,
\* not even the slash.
C2_JoinedTarget ==
  settings.base_url \o RedirectPrefix
    \o (IF strip(request.path) = <<>> THEN <<>>
        ELSE <<"/">> \o url_escape(strip(request.path)))

\* C2: a tree request for a path that is no directory but an existing file is
\* redirected to base URL + "notebooks" or "files" with the escaped path joined
\* on by "/" (base URL + "notebooks" or "files" alone when the stripped path is
\* empty), and the one log entry is the debug entry with the request path
\* and that destination.
C2_FileRedirect ==
  FileRequest
    => /\ response.status = 302
       /\ response.location = C2_JoinedTarget
       /\ response.template = ""
       /\ log = RedirectLog(C2_JoinedTarget)

C2_Witness ==
  /\ TreeRequest /\ ~request.cm.dir_exists /\ request.cm.file_exists
  /\ request.cm.type = "notebook"
  /\ settings.base_url = <<"/", "b", "/">>
  /\ request.path = <<"a", " ", "/">>
  /\ response.status = 302
  /\ response.location = <<"/", "b", "/", "notebooks", "/", "a", "%", "2", "0">>

C3_Listed ==
  /\ TreeRequest /\ request.cm.dir_exists
  /\ ~(request.cm.is_hidden /\ ~request.cm.allow_hidden)

\* C3: a tree request for an existing directory that is not hidden, or with
\* hidden access allowed, renders the directory listing with treePath equal
\* to the request path stripped of leading and trailing slashes, whatever
\* file_exists answers; no redirect is issued.
C3_DirectoryListing ==
  C3_Listed
    => /\ response.status = 200
       /\ response.template = "tree.html"
       /\ "treePath" \in DOMAIN response.page_config
       /\ response.page_config["treePath"] = Scalar(strip(request.path))
       /\ response.location = <<>>

C3_Witness ==
  /\ C3_Listed
  /\ request.cm.file_exists
  /\ request.cm.is_hidden
  /\ request.path = <<"/", "a", "/">>
  /\ response.status = 200
  /\ response.page_config["treePath"] = Scalar(<<"a">>)

(***************************************************************************)
(* Preferred path (SpecPref).                                              *)
(***************************************************************************)
PageHandlers == {"console", "terminal", "file", "notebook"}

PageRendered == response.handler \in PageHandlers /\ response.status = 200

\* The server root and the preferred directory name the same directory: they
\* are equal as relpath reads them (os.path.abspath of each).
C4_SameDirectory ==
  abspath(serverapp.preferred_dir) = abspath(server_root(request.settings))

\* C4: preferredPath is "/" when the preferred directory is the server root,
\* whichever way either is spelled, and "/" followed by the relative path
\* from the server root to the preferred directory otherwise.
C4_PreferredPath ==
  (PageRendered /\ serverapp.preferred_dir # <<>>)
    => response.page_config["preferredPath"] =
         Scalar(IF C4_SameDirectory THEN <<"/">>
                ELSE <<"/">> \o relpath(serverapp.preferred_dir,
                                        server_root(request.settings)).value)

PreferredPathLog ==
  <<LogEntry("error", "Error determining preferred path", <<>>, <<>>)>>

LaterKeys ==
  {"mathjaxConfig", "fullMathjaxUrl", "jupyterConfigDir", "appVersion", "staticDir",
   "settingsUrl", "fullSettingsUrl"}

C5_RelpathFails ==
  /\ response.handler \in PageHandlers
  /\ serverapp.preferred_dir # server_root(request.settings)
  /\ relpath(serverapp.preferred_dir, server_root(request.settings)).raised

\* C5: when computing the relative path of the preferred directory fails, the
\* failure is logged at error level, preferredPath is "/", and the page is
\* rendered with every later layer applied (MathJax, config directory, the
\* traits and their full URLs); no error reaches the request.
C5_PreferredPathFallback ==
  C5_RelpathFails
    => /\ response.status = 200
       /\ log = PreferredPathLog
       /\ LaterKeys \subseteq DOMAIN response.page_config
       /\ response.page_config["preferredPath"] = Scalar(<<"/">>)
       /\ response.page_config["appVersion"] = Scalar(app.app_version)
       /\ response.page_config["jupyterConfigDir"] = Scalar(config_dir)

C5_Witness ==
  /\ C5_RelpathFails
  /\ serverapp.preferred_dir = <<>>
  /\ response.status = 200
  /\ log = PreferredPathLog
  /\ response.page_config["preferredPath"] = Scalar(<<"/">>)

(***************************************************************************)
(* MathJax URL (SpecMathjax).                                              *)
(***************************************************************************)
MathjaxUrl == request.settings.mathjax_url

BaseUrl == request.settings.base_url

FullMathjaxUrl == response.page_config["fullMathjaxUrl"].val

\* C6 as stated: fullMathjaxUrl is the configured URL when that URL is
\* absolute, and the base URL joined with it when it is not.
C6_AbsoluteOrJoined ==
  PageRendered
    => FullMathjaxUrl = IF url_is_absolute(MathjaxUrl) THEN MathjaxUrl
                        ELSE ujoin(<<BaseUrl, MathjaxUrl>>)

\* C6: fullMathjaxUrl is the configured URL unchanged when that URL is
\* absolute (its path component starts with "/") or already starts with the
\* base URL, and the base URL joined with it in every other case.
C6_FullMathjaxUrl ==
  PageRendered
    => FullMathjaxUrl =
         IF url_is_absolute(MathjaxUrl) \/ startswith(MathjaxUrl, BaseUrl)
           THEN MathjaxUrl
         ELSE ujoin(<<BaseUrl, MathjaxUrl>>)

C6_Witness ==
  /\ PageRendered
  /\ ~url_is_absolute(MathjaxUrl)
  /\ startswith(MathjaxUrl, BaseUrl)
  /\ FullMathjaxUrl = MathjaxUrl
  /\ FullMathjaxUrl # ujoin(<<BaseUrl, MathjaxUrl>>)

(***************************************************************************)
(* Custom CSS (SpecCss).                                                   *)
(***************************************************************************)
CssRequest == request.handler = "custom_css" /\ response.handler = "custom_css"

PrimaryCss == primary_css(config_dir)

StaticMatch == static_path_root(app.static_dir)

FallbackCss == StaticMatch.root \o custom_css_suffix

\* The extension page config has deleted staticDir from the page config.
StaticDirDeleted == "staticDir" \in item_keys(labext_page_config)

HasFallback == ~StaticDirDeleted /\ StaticMatch.matched

\* The file at p can be read: it opens and its content decodes.
Readable(p) == FileKind(p) = "file"

NoCssReadable ==
  /\ ~Readable(PrimaryCss)
  /\ HasFallback => ~Readable(FallbackCss)

CssErrorLog(file) == <<LogEntry("error", "Error reading custom CSS file", file, <<>>)>>

\* C7: when neither the primary custom.css nor the fallback derived from
\* staticDir can be read, the request fails with a 500 carrying the fixed
\* message after one error log entry and writes no body; when staticDir
\* holds no "static" there is no fallback and the file tried is the primary.
C7_CssReadFailure ==
  (CssRequest /\ NoCssReadable)
    => /\ response.status = 500
       /\ response.message = "Custom CSS file not found."
       /\ response.body = <<>>
       /\ log \in {CssErrorLog(PrimaryCss), CssErrorLog(FallbackCss)}
       /\ ~HasFallback => log = CssErrorLog(PrimaryCss)

(***************************************************************************)
(* Layering (SpecLayers), shared settings and determinism (Spec).           *)
(***************************************************************************)
LayerKeys == {"k", "token", "appVersion"}

\* What the layers before the extension page config give key k: the trait
\* over the static value, the static value over page_config_data.
LayerHas(k) ==
  k \in {"token", "appVersion"} \/ k \in DOMAIN request.settings.page_config_data.d

LayerValue(k) ==
  CASE k = "token" -> Scalar(request.settings.token)
    [] k = "appVersion" -> Scalar(app.app_version)
    [] OTHER -> request.settings.page_config_data.d[k]

\* The extension page config as a mapping.
RECURSIVE as_dict(_)
as_dict(items) ==
  [k \in item_keys(items) |->
     IF item_at(items, k).kind = "map"
       THEN Map(as_dict(item_at(items, k).items))
     ELSE [kind |-> item_at(items, k).kind, val |-> item_at(items, k).val,
           sub |-> EmptyDict]]

Fragment == as_dict(labext_page_config)

HookOf == request.settings.page_config_hook

\* C8: a key of the extension page config that an earlier layer supplies
\* too holds the extension's value when the values are scalars and
\* the key-by-key merge of the two when they are mappings.
C8_LatestLayerWins ==
  (PageRendered /\ HookOf = "none")
    => \A k \in (DOMAIN Fragment) \cap LayerKeys :
         (LayerHas(k)
            /\ ((Fragment[k].kind = "map") <=> (LayerValue(k).kind = "map")))
           => /\ k \in DOMAIN response.page_config
              /\ response.page_config[k] =
                   IF Fragment[k].kind = "map"
                     THEN Map(Update(LayerValue(k).sub, Fragment[k].sub))
                   ELSE Fragment[k]

\* C9: no request writes to the settings the page config is seeded from:
\* settings["page_config_data"] and every mapping nested in it stay as they
\* were at start-up.
C9_SettingsUnchanged ==
  settings.page_config_data.d = settings0.page_config_data.d

PageConfigSent ==
  /\ response.handler \in PageHandlers \cup {"tree"}
  /\ response.status \in {200, 500}

SentIs(r) ==
  /\ (response.status = 500) <=> r.raised
  /\ response.status = 200 => Del(response.page_config, "treePath") = r.page_config

\* C10: every page config a request builds, at any point of a run, is the
\* one get_page_config returns on the settings as they were at start-up
\* (treePath aside, which the tree handler adds after the call), and a
\* request fails in get_page_config exactly when that first call would.
C10_Deterministic ==
  PageConfigSent => SentIs(get_page_config(settings0))

C10_Witness ==
  /\ PageRendered
  /\ request.settings.page_config_data.d # settings0.page_config_data.d
  /\ "k" \in DOMAIN response.page_config
  /\ response.page_config = get_page_config(settings0).page_config

====
